---------------------------- MODULE Spec2Model ----------------------------
(***************************************************************************)
(* A model of the UK postcode boundary lookup of anpag/openmaptest:        *)
(*   - getPostcodesToTry, scoreResult, searchNominatim and                 *)
(*     fetchPostcodeBoundary of the Nominatim geo service                  *)
(*     (src/unnamed/part_001),                                             *)
(*   - handleSearch of the App component (src/App.tsx, whose control flow  *)
(*     is the same in src/unnamed/part_000).                               *)
(*                                                                         *)
(* A JavaScript string is a sequence of one-character strings.  A number   *)
(* score is an integer: importance is held in tenths (0..10 for 0.0..1.0), *)
(* so that  importance * 10  is the integer held.                          *)
(***************************************************************************)
EXTENDS Integers, Sequences, FiniteSets, TLC

VARIABLES
  \* the pure-function harness: which function is applied, to what, its result
  fn, arg, ret,
  \* the state of the App component (useState hooks)
  postcode, geoJsonData, isLoading, error, isInitial,
  \* the handleSearch invocations: calls[r] is the r-th one, started counts them
  calls, started,
  \* history: the invocations that wrote the displayed state, or issued a
  \* query, after a newer invocation had begun
  staleApplied, staleQueried

vars == <<fn, arg, ret, postcode, geoJsonData, isLoading, error, isInitial,
          calls, started, staleApplied, staleQueried>>

appVars == <<postcode, geoJsonData, isLoading, error, isInitial,
             calls, started, staleApplied, staleQueried>>

----------------------------------------------------------------------------
(* Bounds of the model *)

\* the longest input string drawn for getPostcodesToTry
MaxLen == 5

\* the number of handleSearch invocations in one behaviour
MaxSearches == 2

\* the most candidates in a search response of several candidates
MaxCandidates == 2

----------------------------------------------------------------------------
(* JavaScript strings *)

UpperLetters ==
  {"A","B","C","D","E","F","G","H","I","J","K","L","M",
   "N","O","P","Q","R","S","T","U","V","W","X","Y","Z"}

Digits == {"0","1","2","3","4","5","6","7","8","9"}

\* what String.prototype.trim removes
WhiteSpace == {" ", "\t", "\n"}

LowerToUpper ==
  [c \in {"a","b","c","d","e","f","g","h","i","j","k","l","m",
          "n","o","p","q","r","s","t","u","v","w","x","y","z"} |->
     CASE c = "a" -> "A" [] c = "b" -> "B" [] c = "c" -> "C" [] c = "d" -> "D"
       [] c = "e" -> "E" [] c = "f" -> "F" [] c = "g" -> "G" [] c = "h" -> "H"
       [] c = "i" -> "I" [] c = "j" -> "J" [] c = "k" -> "K" [] c = "l" -> "L"
       [] c = "m" -> "M" [] c = "n" -> "N" [] c = "o" -> "O" [] c = "p" -> "P"
       [] c = "q" -> "Q" [] c = "r" -> "R" [] c = "s" -> "S" [] c = "t" -> "T"
       [] c = "u" -> "U" [] c = "v" -> "V" [] c = "w" -> "W" [] c = "x" -> "X"
       [] c = "y" -> "Y" [] c = "z" -> "Z"]

toUpperCase(s) ==
  [i \in 1..Len(s) |->
     IF s[i] \in DOMAIN LowerToUpper THEN LowerToUpper[s[i]] ELSE s[i]]

RECURSIVE trimStart(_)
trimStart(s) ==
  IF s # <<>> /\ Head(s) \in WhiteSpace THEN trimStart(Tail(s)) ELSE s

RECURSIVE trimEnd(_)
trimEnd(s) ==
  IF s # <<>> /\ s[Len(s)] \in WhiteSpace
  THEN trimEnd(SubSeq(s, 1, Len(s) - 1)) ELSE s

trim(s) == trimEnd(trimStart(s))

\* s.replace(/ +/g, ' '): every run of space characters becomes one space
RECURSIVE collapseSpaces(_)
collapseSpaces(s) ==
  IF Len(s) < 2 THEN s
  ELSE IF s[1] = " " /\ s[2] = " " THEN collapseSpaces(Tail(s))
       ELSE <<s[1]>> \o collapseSpaces(Tail(s))

startsWith(s, prefix) ==
  Len(prefix) <= Len(s) /\ SubSeq(s, 1, Len(prefix)) = prefix

includes(s, sub) ==
  \E i \in 1..(Len(s) - Len(sub) + 1) : SubSeq(s, i, i + Len(sub) - 1) = sub

\* s.split(' ')[0]: the part of s before its first space
RECURSIVE splitFirst(_)
splitFirst(s) ==
  IF s = <<>> \/ Head(s) = " " THEN <<>>
  ELSE <<Head(s)>> \o splitFirst(Tail(s))

\* s.replace(/\d+$/, ''): s without its trailing run of digits
RECURSIVE stripTrailingDigits(_)
stripTrailingDigits(s) ==
  IF s # <<>> /\ s[Len(s)] \in Digits
  THEN stripTrailingDigits(SubSeq(s, 1, Len(s) - 1)) ELSE s

\* [...new Set(list)]: the first occurrence of every element, in order
RECURSIVE unique(_)
unique(list) ==
  IF list = <<>> THEN <<>>
  ELSE LET rest == unique(SubSeq(list, 1, Len(list) - 1))
           last == list[Len(list)]
       IN IF \E i \in 1..Len(rest) : rest[i] = last
          THEN rest ELSE Append(rest, last)

----------------------------------------------------------------------------
(* getPostcodesToTry *)

\* the while loop: shortens current and pushes each shorter form
RECURSIVE shorten(_, _)
shorten(current, hierarchy) ==
  IF Len(current) <= 2 THEN hierarchy
  ELSE IF current[Len(current)] \in UpperLetters
          /\ \E i \in 1..Len(current) : current[i] \in Digits
       THEN LET c == SubSeq(current, 1, Len(current) - 1)
            IN shorten(c, Append(hierarchy, c))
       ELSE IF current[Len(current)] \in Digits
            THEN LET c == stripTrailingDigits(current)
                 IN shorten(c, IF Len(c) > 0 THEN Append(hierarchy, c)
                                             ELSE hierarchy)
            ELSE hierarchy

\* a slip that leaves the runs of spaces as they are
cleanPostcode_noCollapse(pc) == toUpperCase(trim(pc))

cleanPostcode(pc) == collapseSpaces(toUpperCase(trim(pc)))

\* a slip in the order of the two pushes: the outward code before the full one
getPostcodesToTry_outwardFirst(pc) ==
  LET cleaned == cleanPostcode(pc)
      outward == splitFirst(cleaned)
      first   == IF includes(cleaned, <<" ">>) THEN <<outward, cleaned>>
                                               ELSE <<outward>>
  IN unique(shorten(outward, first))

getPostcodesToTry(pc) ==
  LET cleaned == cleanPostcode(pc)
      outward == splitFirst(cleaned)
      first   == IF includes(cleaned, <<" ">>) THEN <<cleaned, outward>>
                                               ELSE <<outward>>
  IN unique(shorten(outward, first))

----------------------------------------------------------------------------
(* scoreResult *)

\* a field that the JSON record does not carry is <<>>, one it carries <<v>>
Absent == <<>>

\* JavaScript null
Null == [null |-> TRUE]

\* result.importance || 0, in tenths
importanceOrZero(result) ==
  IF result.importance = Absent THEN 0 ELSE result.importance[1]

isPostalCodeBoundary(result) ==
  result.class = "boundary" /\ result.type = "postal_code"

\* displayName.startsWith(queryUpper + ',') || displayName.startsWith(queryUpper + ' ')
nameStartsWithQuery(result, query) ==
  LET displayName == toUpperCase(result.display_name)
      queryUpper  == toUpperCase(query)
  IN \/ startsWith(displayName, queryUpper \o <<",">>)
     \/ startsWith(displayName, queryUpper \o <<" ">>)

nameIncludesQuery(result, query) ==
  includes(toUpperCase(result.display_name), toUpperCase(query))

\* a slip that turns the else-if of the contains test into a plain if
scoreResult_bothNameBonuses(result, query) ==
  (IF isPostalCodeBoundary(result) THEN 100 ELSE 0)
  + (IF nameStartsWithQuery(result, query) THEN 80 ELSE 0)
  + (IF nameIncludesQuery(result, query) THEN 30 ELSE 0)
  + (IF result.class = "boundary" THEN 20 ELSE 0)
  + importanceOrZero(result)

\* a slip that drops the postal-code test's bonus
scoreResult_noPostalCodeBonus(result, query) ==
  (IF nameStartsWithQuery(result, query) THEN 80
   ELSE IF nameIncludesQuery(result, query) THEN 30 ELSE 0)
  + (IF result.class = "boundary" THEN 20 ELSE 0)
  + importanceOrZero(result)

\* a slip that gives the boundary bonus to postal-code boundaries only
scoreResult_noBoundaryBonus(result, query) ==
  (IF isPostalCodeBoundary(result) THEN 120 ELSE 0)
  + (IF nameStartsWithQuery(result, query) THEN 80
     ELSE IF nameIncludesQuery(result, query) THEN 30 ELSE 0)
  + importanceOrZero(result)

scoreResult(result, query) ==
  (IF isPostalCodeBoundary(result) THEN 100 ELSE 0)
  + (IF nameStartsWithQuery(result, query) THEN 80
     ELSE IF nameIncludesQuery(result, query) THEN 30 ELSE 0)
  + (IF result.class = "boundary" THEN 20 ELSE 0)
  + importanceOrZero(result)

----------------------------------------------------------------------------
(* searchNominatim *)

\* r.geojson && (r.geojson.type === 'Polygon' || r.geojson.type === 'MultiPolygon')
hasShape(r) ==
  r.geojson # Absent /\ r.geojson[1].type \in {"Polygon", "MultiPolygon"}

\* data.filter(...)
RECURSIVE resultsWithShape(_)
resultsWithShape(data) ==
  IF data = <<>> THEN <<>>
  ELSE (IF hasShape(Head(data)) THEN <<Head(data)>> ELSE <<>>)
       \o resultsWithShape(Tail(data))

\* resultsWithShape.map(result => ({result, score: scoreResult(result, postcode)}))
scoredResults(shaped, pc) ==
  [i \in 1..Len(shaped) |->
     [result |-> shaped[i], score |-> scoreResult(shaped[i], pc)]]

\* a slip that takes the head of the list without sorting it
bestMatch_unsorted(scored) == scored[1]

\* .sort((a, b) => b.score - a.score)[0]: the sort is stable, so the head of
\* the sorted list is the first element of the greatest score
bestMatch(scored) ==
  LET top == CHOOSE i \in 1..Len(scored) :
               /\ \A j \in 1..Len(scored) : scored[j].score <= scored[i].score
               /\ \A j \in 1..(i - 1) : scored[j].score < scored[i].score
  IN scored[top]

Returned(v) == [threw |-> FALSE, value |-> v]
Threw(message) == [threw |-> TRUE, message |-> message]

\* what the awaited fetch gives: response.kind is
\*   "networkError"  fetch rejects,
\*   "httpError"     response.ok is false,
\*   "invalidJson"   response.json() rejects,
\*   "json"          response.json() gives response.data
NetworkErrorMessage == <<"Failed to fetch">>
InvalidJsonMessage == <<"Unexpected token < in JSON at position 0">>

\* a slip that keeps the candidates whatever their geometry
searchNominatim_noShapeFilter(pc, response) ==
  IF response.kind = "networkError" THEN Threw(NetworkErrorMessage)
  ELSE IF response.kind = "httpError" THEN Returned(Null)
  ELSE IF response.kind = "invalidJson" THEN Threw(InvalidJsonMessage)
  ELSE IF response.data = <<>> THEN Returned(Null)
  ELSE LET best == bestMatch(scoredResults(response.data, pc))
       IN IF best.score > 0 THEN Returned(best.result) ELSE Returned(Null)

searchNominatim(pc, response) ==
  IF response.kind = "networkError" THEN Threw(NetworkErrorMessage)
  ELSE IF response.kind = "httpError" THEN Returned(Null)
  ELSE IF response.kind = "invalidJson" THEN Threw(InvalidJsonMessage)
  ELSE IF response.data = <<>> THEN Returned(Null)
  ELSE LET shaped == resultsWithShape(response.data)
       IN IF shaped = <<>> THEN Returned(Null)
          ELSE LET best == bestMatch(scoredResults(shaped, pc))
               IN IF best.score > 0 THEN Returned(best.result)
                  ELSE Returned(Null)

----------------------------------------------------------------------------
(* The App component's state before any search *)

InitialPostcode == <<"S","W","1","A"," ","0","A","A">>

AppInit ==
  /\ postcode = InitialPostcode
  /\ geoJsonData = Null
  /\ isLoading = FALSE
  /\ error = Null
  /\ isInitial = TRUE
  /\ calls = <<>>
  /\ started = 0
  /\ staleApplied = {}
  /\ staleQueried = {}

----------------------------------------------------------------------------
(* getPostcodesToTry applied to every short string *)

HierChars == {"S", "w", "1", "2", " ", "\t"}

HierInputs == UNION {[1..n -> HierChars] : n \in 0..MaxLen}

\* the postcodes of the function's documented examples
SE21 == <<"S","E","2","1">>
SE2 == <<"S","E","2">>
SE == <<"S","E">>
M1 == <<"M","1">>
M == <<"M">>
SW1A == <<"S","W","1","A">>

HierExamples == {InitialPostcode, SE21, M1}

InitHier ==
  /\ fn = "getPostcodesToTry"
  /\ arg \in {[postcode |-> s] : s \in HierInputs \cup HierExamples}
  /\ ret = <<>>
  /\ AppInit

CallGetPostcodesToTry ==
  /\ fn = "getPostcodesToTry"
  /\ ret = <<>>
  /\ ret' = <<getPostcodesToTry(arg.postcode)>>
  /\ UNCHANGED <<fn, arg, appVars>>

NextHier == CallGetPostcodesToTry

SpecHier == InitHier /\ [][NextHier]_vars

\* C10: the list getPostcodesToTry returns is non-empty, holds no fragment
\* twice, and no element is longer than the element before it.
C10_HierarchyShape ==
  (fn = "getPostcodesToTry" /\ ret # <<>>) =>
    LET h == ret[1]
    IN /\ Len(h) >= 1
       /\ \A i, j \in 1..Len(h) : i # j => h[i] # h[j]
       /\ \A i \in 2..Len(h) : Len(h[i]) <= Len(h[i - 1])

\* a full postcode, whose hierarchy holds the full form, the outward code and
\* two broader forms
C10_Witness ==
  /\ fn = "getPostcodesToTry" /\ ret # <<>>
  /\ includes(arg.postcode, <<" ">>)
  /\ Len(ret[1]) >= 3
  /\ Len(ret[1][1]) > Len(ret[1][2])

\* C11: getPostcodesToTry returns exactly ["SW1A 0AA","SW1A","SW1","SW"] for
\* "SW1A 0AA", exactly ["SE21","SE2","SE"] for "SE21" and exactly ["M1","M"]
\* for "M1".
C11_WorkedExamples ==
  (fn = "getPostcodesToTry" /\ ret # <<>>) =>
    /\ arg.postcode = InitialPostcode =>
          ret[1] = <<InitialPostcode, SW1A, <<"S","W","1">>, <<"S","W">>>>
    /\ arg.postcode = SE21 => ret[1] = <<SE21, SE2, SE>>
    /\ arg.postcode = M1 => ret[1] = <<M1, M>>

\* every space of s doubled
RECURSIVE doubleSpaces(_)
doubleSpaces(s) ==
  IF s = <<>> THEN <<>>
  ELSE (IF Head(s) = " " THEN <<" ", " ">> ELSE <<Head(s)>>)
       \o doubleSpaces(Tail(s))

\* every tab of s turned into a space
tabsToSpaces(s) == [i \in 1..Len(s) |-> IF s[i] = "\t" THEN " " ELSE s[i]]

isUpperCase(f) == \A i \in 1..Len(f) : f[i] \notin DOMAIN LowerToUpper

hasSpaceRun(f) == \E i \in 1..(Len(f) - 1) : f[i] = " " /\ f[i + 1] = " "

\* inputs that differ from pc only in letter case, in the whitespace around
\* it, or in the length of its runs of spaces
spaceVariants(pc) ==
  {toUpperCase(pc), doubleSpaces(pc), <<" ", "\t">> \o pc \o <<"\n", " ">>}

\* C12 as stated: every returned fragment is uppercase, has no leading or
\* trailing whitespace and no internal whitespace other than single spaces
\* (tabs included), and inputs that differ only in letter case or in the
\* length or kind of their whitespace runs yield the same hierarchy.
C12_WhitespaceNormalized ==
  (fn = "getPostcodesToTry" /\ ret # <<>>) =>
    /\ \A k \in 1..Len(ret[1]) :
         LET f == ret[1][k]
         IN /\ isUpperCase(f)
            /\ f # <<>> => (f[1] \notin WhiteSpace /\ f[Len(f)] \notin WhiteSpace)
            /\ \A i \in 1..Len(f) : f[i] \in WhiteSpace => f[i] = " "
            /\ ~hasSpaceRun(f)
    /\ \A v \in spaceVariants(arg.postcode) \cup {tabsToSpaces(arg.postcode)} :
         getPostcodesToTry(v) = ret[1]

\* C12 (amended): every returned fragment is uppercase, starts with no
\* whitespace, ends with no space and holds no run of two or more spaces; and
\* inputs that differ only in letter case, in the whitespace around them or in
\* the length of their runs of spaces yield the same hierarchy.
C12_SpacesNormalized ==
  (fn = "getPostcodesToTry" /\ ret # <<>>) =>
    /\ \A k \in 1..Len(ret[1]) :
         LET f == ret[1][k]
         IN /\ isUpperCase(f)
            /\ f # <<>> => (f[1] \notin WhiteSpace /\ f[Len(f)] # " ")
            /\ ~hasSpaceRun(f)
    /\ \A v \in spaceVariants(arg.postcode) : getPostcodesToTry(v) = ret[1]

\* a lowercase input with a run of two spaces inside, whose hierarchy holds
\* the full form with one space
C12_Witness ==
  /\ fn = "getPostcodesToTry" /\ ret # <<>>
  /\ ~isUpperCase(arg.postcode)
  /\ hasSpaceRun(trim(arg.postcode))
  /\ Len(ret[1]) >= 2
  /\ includes(ret[1][1], <<" ">>)

----------------------------------------------------------------------------
(* searchNominatim applied to search responses *)

SW1 == <<"S","W","1">>
SW == <<"S","W">>

SearchQueries == {SW1, SW}

Polygon == <<[type |-> "Polygon"]>>
MultiPolygon == <<[type |-> "MultiPolygon"]>>
Point == <<[type |-> "Point"]>>

\* "SW1, UK", "sw1 uk", "UK SW1", "UK"
DisplayNames ==
  {<<"S","W","1",","," ","U","K">>, <<"s","w","1"," ","u","k">>,
   <<"U","K"," ","S","W","1">>, <<"U","K">>}

\* the records of a response: the fields scoreResult and searchNominatim
\* read, and the address that addressdetails=1 asks for
Candidates ==
  [display_name : DisplayNames,
   class        : {"boundary", "place"},
   type         : {"postal_code", "administrative"},
   importance   : {Absent, <<0>>, <<5>>, <<10>>},
   geojson      : {Absent, Polygon, MultiPolygon, Point},
   address      : {Absent, <<[postcode |-> SW1]>>}]

\* the records that responses of several candidates are made of
ListCandidates ==
  [display_name : {<<"S","W","1",","," ","U","K">>, <<"U","K">>},
   class        : {"boundary", "place"},
   type         : {"postal_code"},
   importance   : {Absent, <<5>>},
   geojson      : {Polygon, MultiPolygon, Point},
   address      : {Absent}]

JsonResponses ==
  {[kind |-> "json", data |-> d] :
     d \in {<<>>} \cup {<<c>> : c \in Candidates}
           \cup UNION {[1..n -> ListCandidates] : n \in 2..MaxCandidates}}

FailedResponses ==
  {[kind |-> k, data |-> <<>>] :
     k \in {"networkError", "httpError", "invalidJson"}}

InitSearch ==
  /\ fn = "searchNominatim"
  /\ arg \in [postcode : SearchQueries,
              response : JsonResponses \cup FailedResponses]
  /\ ret = <<>>
  /\ AppInit

CallSearchNominatim ==
  /\ fn = "searchNominatim"
  /\ ret = <<>>
  /\ ret' = <<searchNominatim(arg.postcode, arg.response)>>
  /\ UNCHANGED <<fn, arg, appVars>>

NextSearch == CallSearchNominatim

SpecSearch == InitSearch /\ [][NextSearch]_vars

\* the search has been made and its response was parsed
Searched == fn = "searchNominatim" /\ ret # <<>>
SearchedJson == Searched /\ arg.response.kind = "json"

\* the candidate the search returned, if it returned one
FoundMatch == Searched /\ ~ret[1].threw /\ ret[1].value # Null

\* what the label of a candidate adds to its score
labelBonus(c, q) ==
  scoreResult(c, q) - scoreResult([c EXCEPT !.display_name = <<>>], q)

\* what the structured postcode of a candidate adds to its score
structuredPostcodeBonus(c, q) ==
  scoreResult(c, q) - scoreResult([c EXCEPT !.address = Absent], q)

hasStructuredPostcode(c, q) ==
  c.address # Absent /\ startsWith(c.address[1].postcode, toUpperCase(q))

isAdministrativePrefixMatch(c, q) ==
  /\ c.class = "boundary" /\ c.type = "administrative"
  /\ nameStartsWithQuery(c, q)

C8_PostalCodeBoundaryAccepted ==
  SearchedJson =>
    \A i \in 1..Len(arg.response.data) :
      LET c == arg.response.data[i]
      IN isPostalCodeBoundary(c) =>
           /\ scoreResult(c, arg.postcode) >= 100
           /\ hasShape(c) =>
                /\ FoundMatch
                /\ scoreResult(ret[1].value, arg.postcode) >= 50

\* a postal-code boundary with geometry whose label does not name the query
\* and whose importance is absent
C8_Witness ==
  /\ SearchedJson
  /\ arg.response.data # <<>>
  /\ isPostalCodeBoundary(arg.response.data[1])
  /\ hasShape(arg.response.data[1])
  /\ ~nameIncludesQuery(arg.response.data[1], arg.postcode)
  /\ arg.response.data[1].importance = Absent
  /\ FoundMatch

isTopShaped(c, data, q) ==
  /\ hasShape(c)
  /\ \E i \in 1..Len(data) : data[i] = c
  /\ \A i \in 1..Len(data) :
       hasShape(data[i]) => scoreResult(data[i], q) <= scoreResult(c, q)

orderingsOf(data) ==
  LET n == Len(data)
  IN {[i \in 1..n |-> data[f[i]]] :
        f \in {g \in [1..n -> 1..n] : \A i, j \in 1..n : g[i] = g[j] => i = j}}

jsonResponse(data) == [kind |-> "json", data |-> data]

\* every candidate has the score in p that it has in data
sameScores(data, p, q) ==
  LET a == scoredResults(resultsWithShape(data), q)
      b == scoredResults(resultsWithShape(p), q)
  IN /\ Len(a) = Len(b)
     /\ \A i \in 1..Len(a) : \A j \in 1..Len(b) :
          a[i].result = b[j].result => a[i].score = b[j].score

\* the geometry-bearing candidates of the greatest score are one and the same
hasUniqueTop(data, q) ==
  LET a == scoredResults(resultsWithShape(data), q)
  IN \A i, j \in 1..Len(a) :
       (\A k \in 1..Len(a) : a[k].score <= a[i].score /\ a[k].score <= a[j].score)
         => a[i].result = a[j].result

\* C13 as stated: every permutation of the candidates of a response gives
\* each candidate the same score and the search the same result: the same
\* returned candidate, or no match in every permutation.
C13_OrderIndependentPick ==
  SearchedJson =>
    \A p \in orderingsOf(arg.response.data) :
      /\ sameScores(arg.response.data, p, arg.postcode)
      /\ searchNominatim(arg.postcode, jsonResponse(p)) = ret[1]

\* C13 (amended): every permutation of the candidates of a response gives
\* each candidate the same score, yields a match exactly when the given order
\* does, yields a match of the same score, and yields the same candidate when
\* the geometry-bearing candidates of the greatest score are one and the same.
C13_OrderIndependentScore ==
  SearchedJson =>
    \A p \in orderingsOf(arg.response.data) :
      LET other == searchNominatim(arg.postcode, jsonResponse(p))
      IN /\ sameScores(arg.response.data, p, arg.postcode)
         /\ ~other.threw
         /\ (other.value = Null) <=> (ret[1].value = Null)
         /\ other.value # Null =>
              scoreResult(other.value, arg.postcode)
                = scoreResult(ret[1].value, arg.postcode)
         /\ hasUniqueTop(arg.response.data, arg.postcode) => other = ret[1]

\* a response of two geometry-bearing candidates of different scores that
\* lists the lower one first: the search returns the second
C13_Witness ==
  /\ SearchedJson /\ FoundMatch
  /\ Len(arg.response.data) >= 2
  /\ hasShape(arg.response.data[1]) /\ hasShape(arg.response.data[2])
  /\ scoreResult(arg.response.data[1], arg.postcode)
       < scoreResult(arg.response.data[2], arg.postcode)
  /\ ret[1].value = arg.response.data[2]
  /\ ret[1].value # arg.response.data[1]

----------------------------------------------------------------------------
(* fetchPostcodeBoundary *)

\* delay(1000)
DelayMs == 1000

EnterPostcodeMessage == <<"Please enter a postcode.">>

\* list.join(separator)
RECURSIVE join(_, _)
join(list, separator) ==
  IF list = <<>> THEN <<>>
  ELSE IF Len(list) = 1 THEN list[1]
       ELSE list[1] \o separator \o join(Tail(list), separator)

NoBoundaryMessage(postcodesToTry) ==
  <<"No geographical boundary data found for this postcode. We tried searching for \"">>
  \o join(postcodesToTry, <<"\"", ",", " ", "\"">>)
  \o <<"\" but found no matching areas.">>

\* a slip that tests for the empty string only
isBlank_emptyOnly(pc) == pc = <<>>

\* !postcode || postcode.trim().length === 0
isBlank(pc) == pc = <<>> \/ Len(trim(pc)) = 0

\* const pc = postcodesToTry[i], with i counted from 0
currentFragment(call) == call.postcodesToTry[call.i + 1]

\* a slip that never takes the early return
accepted_never(out) == FALSE

\* if (result): the search returned a candidate
accepted(out) == ~out.threw /\ out.value # Null

\* a slip that waits after the last fragment too
moreToTry_always(call) == TRUE

\* if (i < postcodesToTry.length - 1)
moreToTry(call) == call.i < Len(call.postcodesToTry) - 1

\* await searchNominatim(pc): the request for the current fragment goes out
issueFetch(call) ==
  [call EXCEPT !.pc = "fetching",
               !.log = Append(@, <<"fetch", currentFragment(call)>>)]

\* the promise that fetchPostcodeBoundary returned is settled with out
settle(call, out) ==
  [call EXCEPT !.pc = "done", !.outcome = <<out>>]

----------------------------------------------------------------------------
(* handleSearch of the App component, and the resolutions it starts *)

EnterUKPostcodeMessage == <<"Please enter a UK postcode.">>

\* "se21", " ", "": what the form may hand to setPostcode
PostcodeInputs ==
  {<<"s","e","2","1">>, <<" ">>, <<>>}

\* the candidates of the search responses: a postal-code boundary, a place
\* that no query names, a boundary without polygon geometry, and a place
\* whose label starts with "SW1"
PostalCodeBoundary ==
  [display_name |-> <<"U","K">>, class |-> "boundary", type |-> "postal_code",
   importance |-> Absent, geojson |-> Polygon, address |-> Absent]
UnrelatedPlace ==
  [display_name |-> <<"U","K">>, class |-> "place", type |-> "postal_code",
   importance |-> Absent, geojson |-> Polygon, address |-> Absent]
PointBoundary ==
  [display_name |-> <<"U","K">>, class |-> "boundary", type |-> "postal_code",
   importance |-> Absent, geojson |-> Point, address |-> Absent]
SW1Place ==
  [display_name |-> <<"S","W","1",","," ","U","K">>, class |-> "place",
   type |-> "postal_code", importance |-> Absent, geojson |-> Polygon,
   address |-> Absent]

SearchResponses ==
  FailedResponses \cup
  {[kind |-> "json", data |-> d] :
     d \in {<<>>, <<PostalCodeBoundary>>, <<UnrelatedPlace>>,
            <<PointBoundary>>, <<SW1Place>>}}

\* every postcode the App may hold, and its hierarchy
Postcodes == {InitialPostcode} \cup {toUpperCase(p) : p \in PostcodeInputs}

postcodesToTryOf == [p \in Postcodes |-> getPostcodesToTry(p)]

\* every fragment a resolution may query, and what searchNominatim makes of
\* each answer of the network to it
Fragments ==
  UNION {{postcodesToTryOf[p][i] : i \in 1..Len(postcodesToTryOf[p])} :
           p \in Postcodes}

searchOutcome ==
  [pc \in Fragments, response \in SearchResponses |->
     searchNominatim(pc, response)]

Init ==
  /\ fn = "handleSearch"
  /\ arg = <<>>
  /\ ret = <<>>
  /\ AppInit

\* PostcodeForm's onChange: setPostcode(e.target.value.toUpperCase())
SetPostcode(p) ==
  /\ started < MaxSearches
  /\ toUpperCase(p) # postcode
  /\ postcode' = toUpperCase(p)
  /\ UNCHANGED <<fn, arg, ret, geoJsonData, isLoading, error, isInitial,
                 calls, started, staleApplied, staleQueried>>

newCall ==
  [postcode |-> postcode, postcodesToTry |-> <<>>, i |-> 0,
   pc |-> "done", log |-> <<>>, outcome |-> Absent]

\* handleSearch with no postcode: setError and return
HandleSearchEmpty ==
  /\ started < MaxSearches
  /\ postcode = <<>>
  /\ error' = [message |-> EnterUKPostcodeMessage]
  /\ calls' = Append(calls, newCall)
  /\ started' = started + 1
  /\ UNCHANGED <<fn, arg, ret, postcode, geoJsonData, isLoading, isInitial,
                 staleApplied, staleQueried>>

\* handleSearch with a postcode of white space: fetchPostcodeBoundary throws
\* before anything is awaited, and the catch and finally blocks run
HandleSearchBlank ==
  /\ started < MaxSearches
  /\ postcode # <<>>
  /\ isBlank(postcode)
  /\ isLoading' = FALSE
  /\ error' = [message |-> EnterPostcodeMessage]
  /\ geoJsonData' = Null
  /\ isInitial' = FALSE
  /\ calls' = Append(calls, settle(newCall, Threw(EnterPostcodeMessage)))
  /\ started' = started + 1
  /\ UNCHANGED <<fn, arg, ret, postcode, staleApplied, staleQueried>>

\* handleSearch with a postcode: the state is reset, fetchPostcodeBoundary
\* builds the hierarchy and the request for its first fragment goes out
HandleSearchStart ==
  /\ started < MaxSearches
  /\ postcode # <<>>
  /\ ~isBlank(postcode)
  /\ isLoading' = TRUE
  /\ error' = Null
  /\ geoJsonData' = Null
  /\ isInitial' = FALSE
  /\ calls' = Append(calls,
       issueFetch([newCall EXCEPT
                     !.postcodesToTry = postcodesToTryOf[postcode]]))
  /\ started' = started + 1
  /\ UNCHANGED <<fn, arg, ret, postcode, staleApplied, staleQueried>>

\* the call's search settles with out; the log keeps what it gave
searched(call, out) ==
  [call EXCEPT !.log = Append(@, <<"settled", out>>)]

\* the try/catch/finally of handleSearch once fetchPostcodeBoundary settled
Finish(r, call, out) ==
  /\ calls' = [calls EXCEPT ![r] = settle(call, out)]
  /\ geoJsonData' = IF out.threw THEN geoJsonData ELSE out.value
  /\ error' = IF out.threw THEN [message |-> out.message] ELSE error
  /\ isLoading' = FALSE
  /\ staleApplied' = IF r < started THEN staleApplied \cup {r}
                                    ELSE staleApplied
  /\ UNCHANGED <<fn, arg, ret, postcode, isInitial, started, staleQueried>>

\* what the awaited searchNominatim(pc) of call r gives, for an answer of
\* the network
searchOf(r, response) == searchOutcome[currentFragment(calls[r]), response]

\* fetch or response.json() rejects: nothing catches it before handleSearch
SearchThrows(r, response) ==
  /\ calls[r].pc = "fetching"
  /\ LET out == searchOf(r, response)
     IN /\ out.threw
        /\ Finish(r, searched(calls[r], out), out)

\* the search returns a candidate: fetchPostcodeBoundary returns it
SearchAccepts(r, response) ==
  /\ calls[r].pc = "fetching"
  /\ LET out == searchOf(r, response)
     IN /\ ~out.threw
        /\ accepted(out)
        /\ Finish(r, searched(calls[r], out), out)

\* the search returns null and a broader fragment is left: delay(1000) starts
SearchMisses(r, response) ==
  /\ calls[r].pc = "fetching"
  /\ LET out == searchOf(r, response)
     IN /\ ~out.threw
        /\ ~accepted(out)
        /\ moreToTry(calls[r])
        /\ calls' = [calls EXCEPT ![r] =
             [searched(calls[r], out) EXCEPT
                !.pc = "delaying", !.log = Append(@, <<"delay", DelayMs>>)]]
  /\ UNCHANGED <<fn, arg, ret, postcode, geoJsonData, isLoading, error,
                 isInitial, started, staleApplied, staleQueried>>

\* the search of the last fragment returns null: the loop ends and
\* fetchPostcodeBoundary throws
SearchExhausts(r, response) ==
  /\ calls[r].pc = "fetching"
  /\ LET out == searchOf(r, response)
     IN /\ ~out.threw
        /\ ~accepted(out)
        /\ ~moreToTry(calls[r])
        /\ Finish(r, searched(calls[r], out),
                  Threw(NoBoundaryMessage(calls[r].postcodesToTry)))

\* the timer of delay(1000) fires: i++, and the loop goes on or ends
DelayElapses(r) ==
  /\ calls[r].pc = "delaying"
  /\ LET call == [calls[r] EXCEPT !.i = @ + 1,
                                  !.log = Append(@, <<"elapsed", DelayMs>>)]
     IN IF call.i < Len(call.postcodesToTry)
        THEN /\ calls' = [calls EXCEPT ![r] = issueFetch(call)]
             /\ staleQueried' = IF r < started THEN staleQueried \cup {r}
                                               ELSE staleQueried
             /\ UNCHANGED <<fn, arg, ret, postcode, geoJsonData, isLoading,
                            error, isInitial, started, staleApplied>>
        ELSE /\ Finish(r, call, Threw(NoBoundaryMessage(call.postcodesToTry)))
             /\ UNCHANGED staleQueried

Next ==
  \/ \E p \in PostcodeInputs : SetPostcode(p)
  \/ HandleSearchEmpty
  \/ HandleSearchBlank
  \/ HandleSearchStart
  \/ \E r \in 1..Len(calls), response \in SearchResponses :
       SearchAccepts(r, response)
  \/ \E r \in 1..Len(calls), response \in SearchResponses :
       SearchMisses(r, response)
  \/ \E r \in 1..Len(calls), response \in SearchResponses :
       SearchExhausts(r, response)
  \/ \E r \in 1..Len(calls), response \in SearchResponses :
       SearchThrows(r, response)
  \/ \E r \in 1..Len(calls) : DelayElapses(r)

Spec == Init /\ [][Next]_vars

----------------------------------------------------------------------------
(* What a resolution did, read from its log *)

\* the fragments a call asked the search for, in the order of its requests
RECURSIVE queriesOf(_)
queriesOf(log) ==
  IF log = <<>> THEN <<>>
  ELSE (IF Head(log)[1] = "fetch" THEN <<Head(log)[2]>> ELSE <<>>)
       \o queriesOf(Tail(log))

\* what its searches gave, in order
RECURSIVE searchesOf(_)
searchesOf(log) ==
  IF log = <<>> THEN <<>>
  ELSE (IF Head(log)[1] = "settled" THEN <<Head(log)[2]>> ELSE <<>>)
       \o searchesOf(Tail(log))

yieldsMatch(out) == ~out.threw /\ out.value # Null
yieldsNothing(out) == ~out.threw /\ out.value = Null

\* the call is an ended resolution of a postcode that is not blank
Resolved(call) == call.pc = "done" /\ ~isBlank(call.postcode)

\* C1: a resolution queries the fragments of the hierarchy in order from the
\* most specific, the first search that yields a match ends it with that
\* match as its result, and no request follows the accepted one.
C1_MostSpecificFirst ==
  \A r \in 1..Len(calls) :
    LET call     == calls[r]
        queries  == queriesOf(call.log)
        searches == searchesOf(call.log)
    IN /\ Len(queries) <= Len(postcodesToTryOf[call.postcode])
       /\ queries = SubSeq(postcodesToTryOf[call.postcode], 1, Len(queries))
       /\ \A k \in 1..Len(searches) :
            yieldsMatch(searches[k]) =>
              /\ k = Len(searches)
              /\ k = Len(queries)
              /\ call.pc = "done"
              /\ call.outcome = <<searches[k]>>
       /\ (call.outcome # Absent /\ yieldsMatch(call.outcome[1])) =>
            /\ searches # <<>>
            /\ searches[Len(searches)] = call.outcome[1]

\* the resolution of "SW1A 0AA" that found nothing for the full postcode and
\* ended with the match of "SW1A"
C1_Witness ==
  \E r \in 1..Len(calls) :
    /\ calls[r].postcode = InitialPostcode
    /\ calls[r].pc = "done"
    /\ queriesOf(calls[r].log) = <<InitialPostcode, <<"S","W","1","A">>>>
    /\ calls[r].outcome = <<Returned(PostalCodeBoundary)>>
    /\ geoJsonData = PostalCodeBoundary

\* C2: a search that fails does not end the resolution while a broader
\* fragment is left, and a resolution of a postcode that is not blank ends
\* with no other error than the one that lists the fragments tried.
C2_FailuresAbsorbed ==
  \A r \in 1..Len(calls) :
    LET call     == calls[r]
        searches == searchesOf(call.log)
    IN Resolved(call) =>
         /\ (searches # <<>> /\ searches[Len(searches)].threw) =>
              Len(searches) = Len(postcodesToTryOf[call.postcode])
         /\ call.outcome[1].threw =>
              call.outcome[1].message =
                NoBoundaryMessage(postcodesToTryOf[call.postcode])

\* C3: a resolution none of whose searches yielded a match has queried every
\* fragment of the hierarchy once and in order, and ended with the error
\* whose message lists them all in that order.
C3_ExhaustionListsAll ==
  \A r \in 1..Len(calls) :
    LET call     == calls[r]
        searches == searchesOf(call.log)
    IN (Resolved(call) /\ \A k \in 1..Len(searches) : ~yieldsMatch(searches[k]))
       => /\ queriesOf(call.log) = postcodesToTryOf[call.postcode]
          /\ call.outcome =
               <<Threw(NoBoundaryMessage(postcodesToTryOf[call.postcode]))>>

\* C4: the requests of a resolution are made one after the other, each after
\* the one before it settled and a wait of 1000 ms that followed it ended;
\* a wait starts only after a search that found nothing for a fragment that
\* is not the last, so none follows the last query or an accepted match.
C4_SequentialAndPaced ==
  \A r \in 1..Len(calls) :
    LET call == calls[r]
        log  == call.log
    IN /\ \A k \in 1..Len(log) :
            /\ k % 4 = 1 => log[k][1] = "fetch"
            /\ k % 4 = 2 => log[k][1] = "settled"
            /\ k % 4 = 3 =>
                 /\ log[k][1] = "delay" /\ log[k][2] = 1000
                 /\ yieldsNothing(log[k - 1][2])
                 /\ (k + 1) \div 4 < Len(postcodesToTryOf[call.postcode])
            /\ k % 4 = 0 => log[k][1] = "elapsed" /\ log[k][2] = 1000
       /\ (call.pc = "done" /\ log # <<>>) => log[Len(log)][1] = "settled"
       /\ call.pc = "fetching" => log[Len(log)][1] = "fetch"
       /\ call.pc = "delaying" => log[Len(log)][1] = "delay"

\* a resolution of "SW1A 0AA" that queried all four fragments, waited three
\* times and ended with the error
C4_Witness ==
  \E r \in 1..Len(calls) :
    /\ calls[r].postcode = InitialPostcode
    /\ calls[r].pc = "done"
    /\ Len(calls[r].log) = 14
    /\ calls[r].outcome =
         <<Threw(NoBoundaryMessage(postcodesToTryOf[InitialPostcode]))>>

\* C5: a resolution that a newer search has superseded issues no further
\* query and never writes its result or error to the displayed state.
C5_SupersededAbandoned ==
  /\ staleQueried = {}
  /\ staleApplied = {}

\* no handleSearch began while an earlier one was unfinished, as when the
\* form's controls are disabled while loading
Sequential ==
  /\ staleApplied = {}
  /\ \A r \in 1..Len(calls) : calls[r].pc # "done" => r = Len(calls)

\* every handleSearch that began has finished
AllFinished == \A r \in 1..Len(calls) : calls[r].pc = "done"

\* C15: when each search starts only after the previous one has finished,
\* the state never holds both an error message and a boundary result while
\* isLoading is false, and isLoading is false once every search has finished,
\* whether it succeeded, failed or was rejected for an empty postcode.
C15_ErrorOrResult ==
  Sequential =>
    /\ ~isLoading => ~(error # Null /\ geoJsonData # Null)
    /\ AllFinished => ~isLoading

----------------------------------------------------------------------------
(* fetchPostcodeBoundary called on its own *)

\* "", " ", " \t", "\n", and full and partial postcodes
FetchInputs ==
  {<<>>, <<" ">>, <<" ", "\t">>, <<"\n">>,
   InitialPostcode, SE21, M1, <<"s","w","1","a"," ","0","a","a">>,
   <<"E","C","1","A"," ","1","B","B">>, <<"W","1","A"," ","1","A","A">>,
   <<"E","C","1","A">>, <<" ","s","e","1"," ">>}

InitFetch ==
  /\ fn = "fetchPostcodeBoundary"
  /\ arg \in {[postcode |-> p] : p \in FetchInputs}
  /\ ret = <<>>
  /\ AppInit

\* the promise of the call settles with out
fetchSettles(call, out) ==
  /\ calls' = <<settle(call, out)>>
  /\ ret' = <<out>>

\* the call up to its first await: the test of the input, the hierarchy and
\* the request for the first fragment
CallFetchPostcodeBoundary ==
  /\ fn = "fetchPostcodeBoundary"
  /\ calls = <<>>
  /\ LET call == [postcode |-> arg.postcode, postcodesToTry |-> <<>>, i |-> 0,
                  pc |-> "start", log |-> <<>>, outcome |-> Absent]
     IN IF isBlank(arg.postcode)
        THEN fetchSettles(call, Threw(EnterPostcodeMessage))
        ELSE /\ calls' = <<issueFetch([call EXCEPT !.postcodesToTry =
                                        getPostcodesToTry(arg.postcode)])>>
             /\ ret' = ret
  /\ UNCHANGED <<fn, arg, postcode, geoJsonData, isLoading, error, isInitial,
                 started, staleApplied, staleQueried>>

\* the awaited searchNominatim(pc) settles, for an answer of the network
FetchSearchSettles(response) ==
  /\ fn = "fetchPostcodeBoundary"
  /\ calls # <<>>
  /\ calls[1].pc = "fetching"
  /\ LET out  == searchNominatim(currentFragment(calls[1]), response)
         call == searched(calls[1], out)
     IN IF out.threw \/ accepted(out)
        THEN fetchSettles(call, out)
        ELSE IF moreToTry(call)
             THEN /\ calls' = <<[call EXCEPT
                        !.pc = "delaying",
                        !.log = Append(@, <<"delay", DelayMs>>)]>>
                  /\ ret' = ret
             ELSE fetchSettles(call,
                               Threw(NoBoundaryMessage(call.postcodesToTry)))
  /\ UNCHANGED <<fn, arg, postcode, geoJsonData, isLoading, error, isInitial,
                 started, staleApplied, staleQueried>>

\* the timer of delay(1000) fires: i++, and the loop goes on or ends
FetchDelayElapses ==
  /\ fn = "fetchPostcodeBoundary"
  /\ calls # <<>>
  /\ calls[1].pc = "delaying"
  /\ LET call == [calls[1] EXCEPT !.i = @ + 1,
                                  !.log = Append(@, <<"elapsed", DelayMs>>)]
     IN IF call.i < Len(call.postcodesToTry)
        THEN calls' = <<issueFetch(call)>> /\ ret' = ret
        ELSE fetchSettles(call, Threw(NoBoundaryMessage(call.postcodesToTry)))
  /\ UNCHANGED <<fn, arg, postcode, geoJsonData, isLoading, error, isInitial,
                 started, staleApplied, staleQueried>>

NextFetch ==
  \/ CallFetchPostcodeBoundary
  \/ \E response \in SearchResponses : FetchSearchSettles(response)
  \/ FetchDelayElapses

SpecFetch == InitFetch /\ [][NextFetch]_vars

\* the postcode is the empty string or holds white space only
isWhitespaceOnly(pc) == \A i \in 1..Len(pc) : pc[i] \in WhiteSpace

\* C14: fetchPostcodeBoundary called with an empty or whitespace-only
\* postcode fails at once with 'Please enter a postcode.'; it issues no search
\* request, starts no delay and never builds the hierarchy of fragments.
C14_BlankRejected ==
  (fn = "fetchPostcodeBoundary" /\ calls # <<>>
                                /\ isWhitespaceOnly(arg.postcode)) =>
    /\ calls[1].pc = "done"
    /\ ret = <<Threw(EnterPostcodeMessage)>>
    /\ calls[1].outcome = ret
    /\ calls[1].log = <<>>
    /\ calls[1].postcodesToTry = <<>>

\* the call with the empty string has been made and has thrown
C14_Witness ==
  /\ fn = "fetchPostcodeBoundary"
  /\ arg.postcode = <<>>
  /\ calls # <<>>
  /\ ret # <<>> /\ ret[1].threw

=============================================================================
